---- MODULE Spec2Model ----
(***************************************************************************)
(* Score / Conversion lifecycle of the sheet-music backend (the Hono edge  *)
(* function): Upload, Convert, its timer-driven completion, Status Read,   *)
(* Library Listing and Delete Score over the key-value Metadata Store and  *)
(* the score bucket of the Blob Store.                                     *)
(*                                                                         *)
(* Every handler is an async function: between two awaits on a store the   *)
(* other handlers may run.  A handler is therefore a sequence of steps,    *)
(* one per store access, and reqs[s] holds the handler's position (pc) and *)
(* its local variables.  Awaits that touch no shared state (verifyAuth,    *)
(* formData, json, createSignedUrl) are folded into the next store access. *)
(***************************************************************************)
EXTENDS Integers, Sequences, FiniteSets, Bags, TLC

\* ------------------------------------------------------------------ bounds
Users == {"u1", "u2"}
MaxTime == 2        \* Date.now() ranges over 1..MaxTime
MaxOps == 3         \* requests received, over the whole run
MaxFaults == 1      \* store calls that fail in the service, over the whole run

Times == 1..MaxTime
Slots == {1, 2}     \* handlers that can be suspended at an await at one instant

\* ------------------------------------------------------------------ values
\* undefined / null: what kv.get gives for a missing key
Nil == [tag |-> "nil"]

\* the Authorization header's token: none, one the Identity Provider rejects,
\* or one it resolves to a user (the token is written as the user's id)
Tokens == Users \cup {"", "expired"}

\* uploaded files: name (split at '.'), declared content type and size in bytes
\* (a scan of 20 MB, two files of 200 KB)
Files ==
  { [name |-> <<"a", "png">>, type |-> "image/png", size |-> 20971520],
    [name |-> <<"a", "jpg">>, type |-> "image/jpg", size |-> 204800],
    [name |-> <<"notes", "txt">>, type |-> "text/plain", size |-> 204800] }

\* the body of a Convert request: tempo is left out, or is 0, or is 300
Bodies ==
  { [tag |-> "body"], [tag |-> "body", tempo |-> 0], [tag |-> "body", tempo |-> 300] }

\* ------------------------------------------------------------------ keys
ScoreId(u, t) == "score_" \o u \o "_" \o ToString(t)
ConversionId(u, t) == "conversion_" \o u \o "_" \o ToString(t)
UserScoresKey(u) == "user_scores_" \o u
UserConversionsKey(u) == "user_conversions_" \o u
FileExt(name) == name[Len(name)]
FileName(u, t, name) == u \o "/" \o ToString(t) \o "." \o FileExt(name)

ScoreIds == {ScoreId(u, t) : u \in Users, t \in Times}
ConversionIds == {ConversionId(u, t) : u \in Users, t \in Times}
IndexKeys == {UserScoresKey(u) : u \in Users} \cup {UserConversionsKey(u) : u \in Users}
\* an id that names no record at any time (no request is received at instant 0)
UnknownId == ScoreId("u1", 0)
Keys == ScoreIds \cup ConversionIds \cup IndexKeys \cup {UnknownId}

VARIABLES
  kv,       \* Metadata Store: key -> stored JSON value, Nil when the key is absent
  blobs,    \* object paths present in SCORE_BUCKET
  now,      \* the clock Date.now() reads
  reqs,     \* slot -> the suspended handler in it (op, pc, locals), or idle
  jobs,     \* the setTimeout callbacks of Convert: pending or running
  resp,     \* the response the last finished handler sent
  log,      \* what the successful responses so far have reported, as a bag
  nops,     \* requests received so far
  faults,   \* store calls that have failed so far
  config,   \* client, SATBSelector: the SATB configuration (satbConfig of the upload page)
  poll,     \* client, pollConversionStatus: interval, attempts, requests on their way
  page      \* client, Library page: the scores it shows and where it has navigated

server == <<kv, blobs, now, reqs, jobs, resp, log, nops, faults>>
client == <<config, poll, page>>
vars == <<kv, blobs, now, reqs, jobs, resp, log, nops, faults, config, poll, page>>

\* a response: the request it answers (operation, bearer token, the user verifyAuth
\* found for it, id parameter), the status code, and the body: the error message,
\* or the id / record / library
NoRequest == [op |-> "none", token |-> "", caller |-> "", param |-> ""]
Request(op, token, caller, param) == [op |-> op, token |-> token, caller |-> caller, param |-> param]
NoResp == [req |-> NoRequest, code |-> 0, error |-> "", id |-> "", record |-> Nil, library |-> <<>>]
Idle == [req |-> NoRequest, pc |-> "idle"]

\* c.json(body, status)
Json(req, code, error, id, record, library) ==
  [req |-> req, code |-> code, error |-> error, id |-> id, record |-> record, library |-> library]
ErrorJson(req, code, error) == Json(req, code, error, "", Nil, <<>>)

\* the array stored under an index key, as `await kv.get(key) || []` reads it
ListOf(v) == IF v = Nil THEN <<>> ELSE v.ids
List(ids) == [tag |-> "list", ids |-> ids]
InSeq(x, seq) == \E n \in 1..Len(seq) : seq[n] = x
\* record.userId: undefined for a value that has no such field (an index array)
UserIdOf(v) == IF v.tag \in {"score", "conversion"} THEN v.userId ELSE "undefined"

\* the client's state before the user has done anything: useState(...) of the
\* upload page, no polling, the Library page before its first load
Voices == {"soprano", "alto", "tenor", "bass"}
resetConfig == [v \in Voices |-> [enabled |-> TRUE, solo |-> FALSE, volume |-> 100]]
NoPoll ==
  [id |-> "", interval |-> "none", attempts |-> 0, converting |-> FALSE,
   navigations |-> 0, inflight |-> <<>>]
NoPage == [scores |-> <<>>, selected |-> Nil, location |-> "/library"]

Init ==
  /\ kv = [k \in Keys |-> Nil]
  /\ blobs = {}
  /\ now = 1
  /\ reqs = [s \in Slots |-> Idle]
  /\ jobs = <<>>
  /\ resp = NoResp
  /\ log = EmptyBag
  /\ nops = 0
  /\ faults = 0
  /\ config = resetConfig
  /\ poll = NoPoll
  /\ page = NoPage

\* ------------------------------------------------------------------ auth
\* a verification that takes any token that is present for a user
verifyAuthLenient(token) ==
  IF token = "" THEN [user |-> "", error |-> "No authorization token provided"]
  ELSE IF token \notin Users THEN [user |-> "u1", error |-> ""]
  ELSE [user |-> token, error |-> ""]

verifyAuth(token) ==
  IF token = "" THEN [user |-> "", error |-> "No authorization token provided"]
  ELSE IF token \notin Users THEN [user |-> "", error |-> "Invalid or expired token"]
  ELSE [user |-> token, error |-> ""]

\* a new request: it takes the first free slot when its handler has to wait
Accept == nops < MaxOps /\ nops' = nops + 1
Free(s) == reqs[s] = Idle /\ \A q \in Slots : q < s => reqs[q] # Idle

\* a successful response enters the log: the operation, the id it returned or
\* deleted, and for Convert the Score id it was given
Event(op, id, scoreId) == [op |-> op, id |-> id, scoreId |-> scoreId]
Logged(op, id, scoreId) == log (+) SetToBag({Event(op, id, scoreId)})
\* Delete Score has reported success for scoreId: with it, one "cascade" entry for
\* every Conversion that a Convert on scoreId has returned before
LoggedDelete(scoreId) ==
  log (+) SetToBag({Event("delete", scoreId, "")}
                   \cup {Event("cascade", e.id, scoreId) :
                           e \in {x \in BagToSet(log) : x.op = "convert" /\ x.scoreId = scoreId}})

\* a call to the Metadata Store or the Blob Store fails in the service
Fault == faults < MaxFaults /\ faults' = faults + 1

\* a handler leaves its slot and sends its response
Finish(s, r) ==
  /\ reqs' = [reqs EXCEPT ![s] = Idle]
  /\ resp' = r

\* ------------------------------------------------------------------ time
Tick ==
  /\ now < MaxTime
  /\ now' = now + 1
  /\ UNCHANGED <<kv, blobs, reqs, jobs, resp, log, nops, faults>>
  /\ UNCHANGED client

\* ------------------------------------------------------------------ Upload
\* a list of allowed types that takes plain text as well
allowedTypesAndText == {"image/jpeg", "image/png", "image/jpg", "application/pdf", "text/plain"}
allowedTypes == {"image/jpeg", "image/png", "image/jpg", "application/pdf"}

\* the client's UploadArea: acceptedTypes, maxSizeMB (default 10), maxSizeBytes
acceptedTypes == {"image/jpeg", "image/png", "image/jpg", "application/pdf"}
maxSizeMB == 10
maxSizeBytes == maxSizeMB * 1024 * 1024
\* validateFile(file): the error message, "" for null
validateFile(file) ==
  IF file.type \notin acceptedTypes
  THEN "Invalid file type. Please upload JPG, PNG, or PDF files only."
  ELSE IF file.size > maxSizeBytes
       THEN "File size exceeds " \o ToString(maxSizeMB) \o "MB limit."
       ELSE ""
\* handleFile(file) calls onFileSelect(file)
onFileSelect(file) == validateFile(file) = ""

\* allowedTypes.includes(file.type)
\* a validation that lets every declared type through
anyType(file) == TRUE
validType(file) == file.type \in allowedTypes

\* if (uploadError) return c.json({ error: `Failed to upload file: ...` }, 500)
\* a handler that goes on whatever the Blob Store answered
uploadErrorIgnored(uploadError) == FALSE
uploadFailed(uploadError) == uploadError

UploadRequest(token, file) ==
  Request("upload", token, verifyAuth(token).user, IF file = Nil THEN "" ELSE file.type)

\* the request is turned away before any store is touched
UploadRejected(token, file) ==
  LET auth == verifyAuth(token)
      req == UploadRequest(token, file)
  IN
  /\ Accept
  /\ \/ /\ auth.error # ""
        /\ resp' = ErrorJson(req, 401, auth.error)
     \/ /\ auth.error = ""
        /\ file = Nil
        /\ resp' = ErrorJson(req, 400, "No file provided")
     \/ /\ auth.error = ""
        /\ file # Nil
        /\ ~validType(file)
        /\ resp' = ErrorJson(req, 400, "Invalid file type. Please upload JPG, PNG, or PDF files only.")
  /\ UNCHANGED <<kv, blobs, now, reqs, jobs, log, faults>>
  /\ UNCHANGED client

\* validation passed: timestamp, fileName, and
\* storage.from(SCORE_BUCKET).upload(fileName, file, {upsert: false}), which gives
\* uploadError when an object is at the path already or when the service fails
UploadStore(s, token, file) ==
  LET auth == verifyAuth(token)
      user == auth.user
      req == UploadRequest(token, file)
      timestamp == now
      fileName == FileName(user, timestamp, file.name)
  IN
  /\ Accept
  /\ Free(s)
  /\ auth.error = ""
  /\ file # Nil
  /\ validType(file)
  /\ \E uploadError \in BOOLEAN :
       /\ IF uploadError
          THEN /\ (fileName \in blobs /\ UNCHANGED faults) \/ (fileName \notin blobs /\ Fault)
               /\ UNCHANGED blobs
          ELSE /\ fileName \notin blobs
               /\ blobs' = blobs \cup {fileName}
               /\ UNCHANGED faults
       /\ IF uploadFailed(uploadError)
          THEN /\ resp' = ErrorJson(req, 500, "Failed to upload file")
               /\ UNCHANGED reqs
          ELSE /\ reqs' = [reqs EXCEPT ![s] =
                    [req |-> req, pc |-> "setMeta", user |-> user, file |-> file,
                     timestamp |-> timestamp, fileName |-> fileName,
                     scoreId |-> ScoreId(user, timestamp), existingScores |-> <<>>]]
               /\ UNCHANGED resp
  /\ UNCHANGED <<kv, now, jobs, log>>
  /\ UNCHANGED client

scoreMetadata(r, uploadedAt) ==
  [tag |-> "score", id |-> r.scoreId, userId |-> r.user, fileName |-> r.file.name,
   filePath |-> r.fileName, fileType |-> r.file.type, fileSize |-> r.file.size,
   uploadedAt |-> uploadedAt]

\* the catch block of the upload handler
UploadException(s) ==
  /\ Fault
  /\ Finish(s, ErrorJson(reqs[s].req, 500, "Internal server error during file upload"))

\* await kv.set(scoreId, scoreMetadata)
UploadSetMeta(s) ==
  LET r == reqs[s] IN
  /\ r.req.op = "upload" /\ r.pc = "setMeta"
  /\ \/ /\ kv' = [kv EXCEPT ![r.scoreId] = scoreMetadata(r, now)]
        /\ reqs' = [reqs EXCEPT ![s].pc = "getIndex"]
        /\ UNCHANGED <<resp, faults>>
     \/ /\ UploadException(s)
        /\ UNCHANGED kv
  /\ UNCHANGED <<blobs, now, jobs, log, nops>>
  /\ UNCHANGED client

\* const existingScores = await kv.get(userScoresKey) || []
UploadGetIndex(s) ==
  LET r == reqs[s] IN
  /\ r.req.op = "upload" /\ r.pc = "getIndex"
  /\ \/ /\ reqs' = [reqs EXCEPT ![s].pc = "setIndex",
                                ![s].existingScores = ListOf(kv[UserScoresKey(r.user)])]
        /\ UNCHANGED <<resp, faults>>
     \/ UploadException(s)
  /\ UNCHANGED <<kv, blobs, now, jobs, log, nops>>
  /\ UNCHANGED client

\* await kv.set(userScoresKey, [...existingScores, scoreId]); return c.json({scoreId, ...})
UploadSetIndex(s) ==
  LET r == reqs[s] IN
  /\ r.req.op = "upload" /\ r.pc = "setIndex"
  /\ \/ /\ kv' = [kv EXCEPT ![UserScoresKey(r.user)] = List(Append(r.existingScores, r.scoreId))]
        /\ Finish(s, Json(r.req, 200, "", r.scoreId, Nil, <<>>))
        /\ log' = Logged("upload", r.scoreId, "")
        /\ UNCHANGED faults
     \/ /\ UploadException(s)
        /\ UNCHANGED <<kv, log>>
  /\ UNCHANGED <<blobs, now, jobs, nops>>
  /\ UNCHANGED client

\* ------------------------------------------------------------------ Convert
\* the setTimeout callback's position and closure
Job(conversionData) == [pc |-> "timer", conversionData |-> conversionData, existingConversions |-> <<>>]

\* no check at all
ConvertCheckSkipped(store, req) == NoResp

\* an ownership check that tells a foreign Score from a missing one
ConvertCheckForbidden(store, req) ==
  LET data == store[req.param] IN
  IF data = Nil
  THEN ErrorJson(req, 404, "Score not found or access denied")
  ELSE IF UserIdOf(data) # req.caller
       THEN ErrorJson(req, 403, "Access denied")
       ELSE NoResp

\* if (!scoreMetadata || scoreMetadata.userId !== user.id) return 404;
\* NoResp when the handler goes on
ConvertCheckResponse(store, req) ==
  LET score == store[req.param] IN
  IF score = Nil \/ UserIdOf(score) # req.caller
  THEN ErrorJson(req, 404, "Score not found or access denied")
  ELSE NoResp

\* 401, or the ownership check on kv.get(scoreId) fails, or kv.get throws
ConvertRejected(token, scoreId) ==
  LET auth == verifyAuth(token)
      req == Request("convert", token, auth.user, scoreId)
  IN
  /\ Accept
  /\ \/ /\ auth.error # ""
        /\ resp' = ErrorJson(req, 401, auth.error)
        /\ UNCHANGED faults
     \/ /\ auth.error = ""
        /\ ConvertCheckResponse(kv, req) # NoResp
        /\ resp' = ConvertCheckResponse(kv, req)
        /\ UNCHANGED faults
     \/ /\ auth.error = ""
        /\ Fault
        /\ resp' = ErrorJson(req, 500, "Internal server error during conversion")
  /\ UNCHANGED <<kv, blobs, now, reqs, jobs, log>>
  /\ UNCHANGED client

\* const { instruments, satbConfig, tempo } = await c.req.json();
\* const scoreMetadata = await kv.get(scoreId): the caller owns the record
ConvertCheck(s, token, scoreId, body) ==
  LET auth == verifyAuth(token)
      req == Request("convert", token, auth.user, scoreId)
  IN
  /\ Accept
  /\ Free(s)
  /\ auth.error = ""
  /\ ConvertCheckResponse(kv, req) = NoResp
  /\ reqs' = [reqs EXCEPT ![s] =
       [req |-> req, pc |-> "create", user |-> auth.user, scoreId |-> scoreId, body |-> body]]
  /\ UNCHANGED <<kv, blobs, now, jobs, resp, log, faults>>
  /\ UNCHANGED client

\* tempo || 120: the tempo of the body, 120 when it is undefined or 0
defaultTempo == 120
tempoOrDefault(body) ==
  IF "tempo" \in DOMAIN body /\ body.tempo # 0 THEN body.tempo ELSE defaultTempo

\* a Conversion that is created in its final state
conversionDataCompleted(r, t) ==
  [tag |-> "conversion", id |-> ConversionId(r.user, t), scoreId |-> r.scoreId, userId |-> r.user,
   tempo |-> tempoOrDefault(r.body), status |-> "completed", createdAt |-> t]

conversionData(r, t) ==
  [tag |-> "conversion", id |-> ConversionId(r.user, t), scoreId |-> r.scoreId, userId |-> r.user,
   tempo |-> tempoOrDefault(r.body), status |-> "processing", createdAt |-> t]

\* the body of the Convert response: { conversionId, status: 'processing', message }
convertResponse(conversionId) ==
  [tag |-> "response", conversionId |-> conversionId, status |-> "processing",
   message |-> "Conversion started. Check status using the conversion ID."]

\* await kv.set(conversionId, conversionData); setTimeout(...); return c.json(...)
ConvertCreate(s) ==
  LET r == reqs[s]
      data == conversionData(r, now)
  IN
  /\ r.req.op = "convert" /\ r.pc = "create"
  /\ \/ /\ kv' = [kv EXCEPT ![data.id] = data]
        /\ jobs' = Append(jobs, Job(data))
        /\ Finish(s, Json(r.req, 200, "", data.id, convertResponse(data.id), <<>>))
        /\ log' = Logged("convert", data.id, r.scoreId)
        /\ UNCHANGED faults
     \/ /\ Fault
        /\ Finish(s, ErrorJson(r.req, 500, "Internal server error during conversion"))
        /\ UNCHANGED <<kv, jobs, log>>
  /\ UNCHANGED <<blobs, now, nops>>
  /\ UNCHANGED client

\* ------------------------------------------------------- Conversion completion
Remove(seq, j) == [i \in 1..(Len(seq) - 1) |-> IF i < j THEN seq[i] ELSE seq[i + 1]]

audioPath(data) == data.userId \o "/" \o data.id \o ".mp3"
midiPath(data) == data.userId \o "/" \o data.id \o ".mid"

\* const { data } = await storage.from(bucket).createSignedUrl(path, ...): data is
\* null when the Blob Store answers with an error
createSignedUrl(path, error) ==
  IF error THEN Nil ELSE [tag |-> "signed", signedUrl |-> "https://signed/" \o path]
\* audioUrl?.signedUrl
signedUrl(data) == IF data = Nil THEN "undefined" ELSE data.signedUrl

updatedConversion(data, audioUrl, midiUrl, t) ==
  [tag |-> "conversion", id |-> data.id, scoreId |-> data.scoreId, userId |-> data.userId,
   tempo |-> data.tempo, status |-> "completed", createdAt |-> data.createdAt,
   audioUrl |-> signedUrl(audioUrl), midiUrl |-> signedUrl(midiUrl),
   audioPath |-> audioPath(data), midiPath |-> midiPath(data),
   completedAt |-> t]

\* a failure record that keeps the result fields of the completed one
failedKeepingResult(data) ==
  [tag |-> "conversion", id |-> data.id, scoreId |-> data.scoreId, userId |-> data.userId,
   tempo |-> data.tempo, status |-> "failed", createdAt |-> data.createdAt,
   audioPath |-> audioPath(data), midiPath |-> midiPath(data),
   error |-> "Conversion processing failed"]

failedConversion(data) ==
  [tag |-> "conversion", id |-> data.id, scoreId |-> data.scoreId, userId |-> data.userId,
   tempo |-> data.tempo, status |-> "failed", createdAt |-> data.createdAt, error |-> "Conversion processing failed"]

\* catch (error) { await kv.set(conversionId, {...conversionData, status: 'failed', ...}) }
\* after a store call of the try block has thrown; the callback ends either way
JobCatch(j) ==
  /\ Fault
  /\ kv' = [kv EXCEPT ![jobs[j].conversionData.id] = failedConversion(jobs[j].conversionData)]
  /\ jobs' = Remove(jobs, j)

\* the timer fires 2000 ms after Convert: await kv.set(conversionId, updatedConversion)
JobSetCompleted(j) ==
  LET data == jobs[j].conversionData IN
  /\ jobs[j].pc = "timer"
  /\ now > data.createdAt
  /\ \/ \E audioError, midiError \in BOOLEAN :
          LET errors == (IF audioError THEN 1 ELSE 0) + (IF midiError THEN 1 ELSE 0)
              audioUrl == createSignedUrl(audioPath(data), audioError)
              midiUrl == createSignedUrl(midiPath(data), midiError)
          IN
          /\ faults + errors <= MaxFaults
          /\ faults' = faults + errors
          /\ kv' = [kv EXCEPT ![data.id] = updatedConversion(data, audioUrl, midiUrl, now)]
          /\ jobs' = [jobs EXCEPT ![j].pc = "getIndex"]
     \/ JobCatch(j)
  /\ UNCHANGED <<blobs, now, reqs, resp, log, nops>>
  /\ UNCHANGED client

\* const existingConversions = await kv.get(userConversionsKey) || []
JobGetIndex(j) ==
  LET data == jobs[j].conversionData IN
  /\ jobs[j].pc = "getIndex"
  /\ \/ /\ jobs' = [jobs EXCEPT ![j].pc = "setIndex",
                                ![j].existingConversions = ListOf(kv[UserConversionsKey(data.userId)])]
        /\ UNCHANGED <<kv, faults>>
     \/ JobCatch(j)
  /\ UNCHANGED <<blobs, now, reqs, resp, log, nops>>
  /\ UNCHANGED client

\* await kv.set(userConversionsKey, [...existingConversions, conversionId])
JobSetIndex(j) ==
  LET data == jobs[j].conversionData IN
  /\ jobs[j].pc = "setIndex"
  /\ \/ /\ kv' = [kv EXCEPT ![UserConversionsKey(data.userId)] =
                     List(Append(jobs[j].existingConversions, data.id))]
        /\ jobs' = Remove(jobs, j)
        /\ UNCHANGED faults
     \/ JobCatch(j)
  /\ UNCHANGED <<blobs, now, reqs, resp, log, nops>>
  /\ UNCHANGED client

\* ------------------------------------------------------------------ Status Read
\* if (!conversionData || conversionData.userId !== user.id) return 404;
\* return c.json(conversionData)
\* a status read that hands out whatever record the id names
StatusReadAnyOwner(store, req) ==
  LET data == store[req.param] IN
  IF data = Nil
  THEN ErrorJson(req, 404, "Conversion not found or access denied")
  ELSE Json(req, 200, "", "", data, <<>>)

StatusReadResponse(store, req) ==
  LET data == store[req.param] IN
  IF data = Nil \/ UserIdOf(data) # req.caller
  THEN ErrorJson(req, 404, "Conversion not found or access denied")
  ELSE Json(req, 200, "", "", data, <<>>)

StatusRead(token, conversionId) ==
  LET auth == verifyAuth(token)
      req == Request("status", token, auth.user, conversionId)
  IN
  /\ Accept
  /\ \/ /\ auth.error # ""
        /\ resp' = ErrorJson(req, 401, auth.error)
        /\ UNCHANGED faults
     \/ /\ auth.error = ""
        /\ resp' = StatusReadResponse(kv, req)
        /\ UNCHANGED faults
     \/ /\ auth.error = ""
        /\ Fault
        /\ resp' = ErrorJson(req, 500, "Internal server error fetching conversion")
  /\ UNCHANGED <<kv, blobs, now, reqs, jobs, log>>
  /\ UNCHANGED client

\* ------------------------------------------------------------------ Library
\* a multi-get that answers null for a key that does not exist
mgetWithNulls(store, keys) == [i \in 1..Len(keys) |-> store[keys[i]]]

RECURSIVE Distinct(_)
\* the keys in the order of their first occurrence, each once
Distinct(keys) ==
  IF keys = <<>> THEN <<>>
  ELSE LET front == Distinct(SubSeq(keys, 1, Len(keys) - 1))
           last == keys[Len(keys)]
       IN IF \E i \in 1..Len(front) : front[i] = last THEN front ELSE Append(front, last)

\* kv.mget(keys): the stored values that the keys name, one for each key that
\* exists, none for a key that does not
mget(store, keys) ==
  LET present == SelectSeq(Distinct(keys), LAMBDA k : store[k] # Nil) IN
  [i \in 1..Len(present) |-> store[present[i]]]

\* reading a property of an element that is null throws a TypeError (conv.scoreId,
\* score.id, c.scoreId)
throwsOnNull(list) == \E i \in 1..Len(list) : list[i] = Nil

\* conversionsByScore[score.id] || []
conversionsByScore(conversions, id) == SelectSeq(conversions, LAMBDA c : c.scoreId = id)

\* a listing that is left in the order of the index
Unsorted(list) == list

\* Array.prototype.sort with (a, b) => b.uploadedAt - a.uploadedAt: stable, newest first
RECURSIVE InsertByDate(_, _)
InsertByDate(sorted, e) ==
  IF sorted = <<>> THEN <<e>>
  ELSE IF Head(sorted).uploadedAt >= e.uploadedAt
       THEN <<Head(sorted)>> \o InsertByDate(Tail(sorted), e)
       ELSE <<e>> \o sorted
RECURSIVE SortByDate(_)
SortByDate(list) ==
  IF list = <<>> THEN <<>>
  ELSE InsertByDate(SortByDate(SubSeq(list, 1, Len(list) - 1)), list[Len(list)])

\* scores.map(score => ({...score, conversions})) then sort
library(scores, conversions) ==
  SortByDate([i \in 1..Len(scores) |->
    [score |-> scores[i], uploadedAt |-> scores[i].uploadedAt,
     conversions |-> conversionsByScore(conversions, scores[i].id)]])

LibraryException(s) ==
  /\ Fault
  /\ Finish(s, ErrorJson(reqs[s].req, 500, "Internal server error fetching library"))

LibraryRejected(token) ==
  LET auth == verifyAuth(token)
      req == Request("library", token, auth.user, "")
  IN
  /\ Accept
  /\ \/ /\ auth.error # ""
        /\ resp' = ErrorJson(req, 401, auth.error)
        /\ UNCHANGED faults
     \/ /\ auth.error = ""
        /\ Fault
        /\ resp' = ErrorJson(req, 500, "Internal server error fetching library")
  /\ UNCHANGED <<kv, blobs, now, reqs, jobs, log>>
  /\ UNCHANGED client

\* const scoreIds = await kv.get(userScoresKey) || []
LibraryGetScoreIds(s, token) ==
  LET auth == verifyAuth(token) IN
  /\ Accept
  /\ Free(s)
  /\ auth.error = ""
  /\ reqs' = [reqs EXCEPT ![s] =
       [req |-> Request("library", token, auth.user, ""), pc |-> "getConversionIds", user |-> auth.user,
        scoreIds |-> ListOf(kv[UserScoresKey(auth.user)]), conversionIds |-> <<>>, scores |-> <<>>]]
  /\ UNCHANGED <<kv, blobs, now, jobs, resp, log, faults>>
  /\ UNCHANGED client

\* const conversionIds = await kv.get(userConversionsKey) || []
LibraryGetConversionIds(s) ==
  LET r == reqs[s] IN
  /\ r.req.op = "library" /\ r.pc = "getConversionIds"
  /\ \/ /\ reqs' = [reqs EXCEPT ![s].pc = "mgetScores",
                                ![s].conversionIds = ListOf(kv[UserConversionsKey(r.user)])]
        /\ UNCHANGED <<resp, faults>>
     \/ LibraryException(s)
  /\ UNCHANGED <<kv, blobs, now, jobs, log, nops>>
  /\ UNCHANGED client

\* const scores = await kv.mget(scoreIds)
LibraryMgetScores(s) ==
  LET r == reqs[s] IN
  /\ r.req.op = "library" /\ r.pc = "mgetScores"
  /\ \/ /\ reqs' = [reqs EXCEPT ![s].pc = "mgetConversions", ![s].scores = mget(kv, r.scoreIds)]
        /\ UNCHANGED <<resp, faults>>
     \/ LibraryException(s)
  /\ UNCHANGED <<kv, blobs, now, jobs, log, nops>>
  /\ UNCHANGED client

\* const conversions = await kv.mget(conversionIds); ...; return c.json({ library })
LibraryMgetConversions(s) ==
  LET r == reqs[s] IN
  /\ r.req.op = "library" /\ r.pc = "mgetConversions"
  /\ \/ /\ LET conversions == mget(kv, r.conversionIds) IN
           IF throwsOnNull(conversions) \/ throwsOnNull(r.scores)
           THEN Finish(s, ErrorJson(r.req, 500, "Internal server error fetching library"))
           ELSE Finish(s, Json(r.req, 200, "", "", Nil, library(r.scores, conversions)))
        /\ UNCHANGED faults
     \/ LibraryException(s)
  /\ UNCHANGED <<kv, blobs, now, jobs, log, nops>>
  /\ UNCHANGED client

\* ------------------------------------------------------------------ Delete Score
FilePathOf(v) == IF v.tag = "score" THEN v.filePath ELSE "undefined"

DeleteException(s) ==
  /\ Fault
  /\ Finish(s, ErrorJson(reqs[s].req, 500, "Internal server error during deletion"))

\* if (!scoreMetadata || scoreMetadata.userId !== user.id) return 404;
\* NoResp when the handler goes on
DeleteCheckResponse(store, req) ==
  LET score == store[req.param] IN
  IF score = Nil \/ UserIdOf(score) # req.caller
  THEN ErrorJson(req, 404, "Score not found or access denied")
  ELSE NoResp

DeleteRejected(token, scoreId) ==
  LET auth == verifyAuth(token)
      req == Request("delete", token, auth.user, scoreId)
  IN
  /\ Accept
  /\ \/ /\ auth.error # ""
        /\ resp' = ErrorJson(req, 401, auth.error)
        /\ UNCHANGED faults
     \/ /\ auth.error = ""
        /\ DeleteCheckResponse(kv, req) # NoResp
        /\ resp' = DeleteCheckResponse(kv, req)
        /\ UNCHANGED faults
     \/ /\ auth.error = ""
        /\ Fault
        /\ resp' = ErrorJson(req, 500, "Internal server error during deletion")
  /\ UNCHANGED <<kv, blobs, now, reqs, jobs, log>>
  /\ UNCHANGED client

\* const scoreMetadata = await kv.get(scoreId): the caller owns the record
DeleteCheck(s, token, scoreId) ==
  LET auth == verifyAuth(token)
      req == Request("delete", token, auth.user, scoreId)
  IN
  /\ Accept
  /\ Free(s)
  /\ auth.error = ""
  /\ DeleteCheckResponse(kv, req) = NoResp
  /\ reqs' = [reqs EXCEPT ![s] =
       [req |-> req, pc |-> "removeFile", user |-> auth.user, scoreId |-> scoreId,
        filePath |-> FilePathOf(kv[scoreId]), conversionIds |-> <<>>, scoreConversions |-> <<>>, i |-> 1,
        scoreIds |-> <<>>]]
  /\ UNCHANGED <<kv, blobs, now, jobs, resp, log, faults>>
  /\ UNCHANGED client

\* a handler that gives up when the Score file cannot be removed
DeleteRemoveFileStrict(s) ==
  LET r == reqs[s] IN
  /\ r.req.op = "delete" /\ r.pc = "removeFile"
  /\ \/ /\ blobs' = blobs \ {r.filePath}
        /\ reqs' = [reqs EXCEPT ![s].pc = "getConversionIds"]
        /\ UNCHANGED <<resp, faults>>
     \/ /\ DeleteException(s)
        /\ UNCHANGED blobs
  /\ UNCHANGED <<kv, now, jobs, log, nops>>
  /\ UNCHANGED client

\* await supabase.storage.from(SCORE_BUCKET).remove([scoreMetadata.filePath]):
\* the result is not looked at, a removal that fails leaves the object
DeleteRemoveFile(s) ==
  LET r == reqs[s] IN
  /\ r.req.op = "delete" /\ r.pc = "removeFile"
  /\ \/ blobs' = blobs \ {r.filePath} /\ UNCHANGED faults
     \/ Fault /\ UNCHANGED blobs
  /\ reqs' = [reqs EXCEPT ![s].pc = "getConversionIds"]
  /\ UNCHANGED <<kv, now, jobs, resp, log, nops>>
  /\ UNCHANGED client

\* const conversionIds = await kv.get(userConversionsKey) || []
DeleteGetConversionIds(s) ==
  LET r == reqs[s] IN
  /\ r.req.op = "delete" /\ r.pc = "getConversionIds"
  /\ \/ /\ reqs' = [reqs EXCEPT ![s].pc = "mget",
                                ![s].conversionIds = ListOf(kv[UserConversionsKey(r.user)])]
        /\ UNCHANGED <<resp, faults>>
     \/ DeleteException(s)
  /\ UNCHANGED <<kv, blobs, now, jobs, log, nops>>
  /\ UNCHANGED client

\* const conversions = await kv.mget(conversionIds); scoreConversions = conversions.filter(...)
DeleteMget(s) ==
  LET r == reqs[s] IN
  /\ r.req.op = "delete" /\ r.pc = "mget"
  /\ \/ /\ LET conversions == mget(kv, r.conversionIds) IN
           IF throwsOnNull(conversions)
           THEN Finish(s, ErrorJson(r.req, 500, "Internal server error during deletion"))
           ELSE /\ reqs' = [reqs EXCEPT ![s].pc = "loop",
                                        ![s].scoreConversions = conversionsByScore(conversions, r.scoreId)]
                /\ UNCHANGED resp
        /\ UNCHANGED faults
     \/ DeleteException(s)
  /\ UNCHANGED <<kv, blobs, now, jobs, log, nops>>
  /\ UNCHANGED client

\* one turn of the loop: if (conversion.audioPath) remove the audio object, if
\* (conversion.midiPath) remove the MIDI object (no handler ever stores one, so a
\* removal finds nothing; its result is not looked at, whether it failed or not),
\* then await kv.del(conversion.id)
DeleteConversion(s) ==
  LET r == reqs[s] IN
  /\ r.req.op = "delete" /\ r.pc = "loop" /\ r.i <= Len(r.scoreConversions)
  /\ \/ /\ kv' = [kv EXCEPT ![r.scoreConversions[r.i].id] = Nil]
        /\ reqs' = [reqs EXCEPT ![s].i = r.i + 1]
        /\ UNCHANGED resp
        /\ \/ UNCHANGED faults
           \/ "audioPath" \in DOMAIN r.scoreConversions[r.i] /\ Fault
     \/ DeleteException(s) /\ UNCHANGED kv
  /\ UNCHANGED <<blobs, now, jobs, log, nops>>
  /\ UNCHANGED client

\* await kv.set(userConversionsKey, conversionIds.filter(id => !scoreConversions.find(...)))
DeleteSetConversionIds(s) ==
  LET r == reqs[s]
      gone == {r.scoreConversions[n].id : n \in 1..Len(r.scoreConversions)}
      updatedConversions == SelectSeq(r.conversionIds, LAMBDA id : id \notin gone)
  IN
  /\ r.req.op = "delete" /\ r.pc = "loop" /\ r.i > Len(r.scoreConversions)
  /\ \/ /\ kv' = [kv EXCEPT ![UserConversionsKey(r.user)] = List(updatedConversions)]
        /\ reqs' = [reqs EXCEPT ![s].pc = "delScore"]
        /\ UNCHANGED <<resp, faults>>
     \/ DeleteException(s) /\ UNCHANGED kv
  /\ UNCHANGED <<blobs, now, jobs, log, nops>>
  /\ UNCHANGED client

\* await kv.del(scoreId)
DeleteScore(s) ==
  LET r == reqs[s] IN
  /\ r.req.op = "delete" /\ r.pc = "delScore"
  /\ \/ /\ kv' = [kv EXCEPT ![r.scoreId] = Nil]
        /\ reqs' = [reqs EXCEPT ![s].pc = "getScoreIds"]
        /\ UNCHANGED <<resp, faults>>
     \/ DeleteException(s) /\ UNCHANGED kv
  /\ UNCHANGED <<blobs, now, jobs, log, nops>>
  /\ UNCHANGED client

\* const scoreIds = await kv.get(userScoresKey) || []
DeleteGetScoreIds(s) ==
  LET r == reqs[s] IN
  /\ r.req.op = "delete" /\ r.pc = "getScoreIds"
  /\ \/ /\ reqs' = [reqs EXCEPT ![s].pc = "setScoreIds",
                                ![s].scoreIds = ListOf(kv[UserScoresKey(r.user)])]
        /\ UNCHANGED <<resp, faults>>
     \/ DeleteException(s)
  /\ UNCHANGED <<kv, blobs, now, jobs, log, nops>>
  /\ UNCHANGED client

\* a filter that keeps nothing
filterNone(scoreIds, scoreId) == <<>>
\* scoreIds.filter(id => id !== scoreId)
filterScoreIds(scoreIds, scoreId) == SelectSeq(scoreIds, LAMBDA id : id # scoreId)

\* await kv.set(userScoresKey, scoreIds.filter(id => id !== scoreId)); return c.json(...)
DeleteSetScoreIds(s) ==
  LET r == reqs[s] IN
  /\ r.req.op = "delete" /\ r.pc = "setScoreIds"
  /\ \/ /\ kv' = [kv EXCEPT ![UserScoresKey(r.user)] = List(filterScoreIds(r.scoreIds, r.scoreId))]
        /\ Finish(s, Json(r.req, 200, "", r.scoreId, Nil, <<>>))
        /\ log' = LoggedDelete(r.scoreId)
        /\ UNCHANGED faults
     \/ DeleteException(s) /\ UNCHANGED <<kv, log>>
  /\ UNCHANGED <<blobs, now, jobs, nops>>
  /\ UNCHANGED client

\* ------------------------------------------------------------------ system
\* the ids a client sends: the id of any record there is, of either kind,
\* and one that names nothing
Ids == {k \in ScoreIds \cup ConversionIds : kv[k] # Nil} \cup {UnknownId}

Next ==
  \/ Tick
  \/ \E token \in Tokens, file \in Files \cup {Nil} : UploadRejected(token, file)
  \/ \E s \in Slots, token \in Tokens, file \in Files : UploadStore(s, token, file)
  \/ \E s \in Slots : UploadSetMeta(s)
  \/ \E s \in Slots : UploadGetIndex(s)
  \/ \E s \in Slots : UploadSetIndex(s)
  \/ \E token \in Tokens, id \in Ids : ConvertRejected(token, id)
  \/ \E s \in Slots, token \in Tokens, id \in Ids, body \in Bodies : ConvertCheck(s, token, id, body)
  \/ \E s \in Slots : ConvertCreate(s)
  \/ \E j \in 1..Len(jobs) : JobSetCompleted(j)
  \/ \E j \in 1..Len(jobs) : JobGetIndex(j)
  \/ \E j \in 1..Len(jobs) : JobSetIndex(j)
  \/ \E token \in Tokens, id \in Ids : StatusRead(token, id)
  \/ \E token \in Tokens : LibraryRejected(token)
  \/ \E s \in Slots, token \in Tokens : LibraryGetScoreIds(s, token)
  \/ \E s \in Slots : LibraryGetConversionIds(s)
  \/ \E s \in Slots : LibraryMgetScores(s)
  \/ \E s \in Slots : LibraryMgetConversions(s)
  \/ \E token \in Tokens, id \in Ids : DeleteRejected(token, id)
  \/ \E s \in Slots, token \in Tokens, id \in Ids : DeleteCheck(s, token, id)
  \/ \E s \in Slots : DeleteRemoveFile(s)
  \/ \E s \in Slots : DeleteGetConversionIds(s)
  \/ \E s \in Slots : DeleteMget(s)
  \/ \E s \in Slots : DeleteConversion(s)
  \/ \E s \in Slots : DeleteSetConversionIds(s)
  \/ \E s \in Slots : DeleteScore(s)
  \/ \E s \in Slots : DeleteGetScoreIds(s)
  \/ \E s \in Slots : DeleteSetScoreIds(s)

Spec == Init /\ [][Next]_vars

\* ======================================================================= client
\* ------------------------------------------------------------------ SATBSelector
\* the values the volume slider is moved to
Volumes == {0, 100}

\* onChange({...config, [voiceId]: {...config[voiceId], enabled: !config[voiceId].enabled}})
handleToggleEnabled(voiceId) ==
  /\ config' = [config EXCEPT ![voiceId].enabled = ~config[voiceId].enabled]
  /\ UNCHANGED <<server, poll, page>>

\* a toggle that flips the voice's own solo and leaves the other voices as they are
handleToggleSoloOwn(voiceId) ==
  /\ config[voiceId].enabled
  /\ config' = [config EXCEPT ![voiceId].solo = ~config[voiceId].solo]
  /\ UNCHANGED <<server, poll, page>>

\* if (config[voiceId].solo) unsolo it, else solo it and unsolo every other voice;
\* the solo button of a voice that is not enabled is disabled
handleToggleSolo(voiceId) ==
  /\ config[voiceId].enabled
  /\ config' = IF config[voiceId].solo
               THEN [config EXCEPT ![voiceId].solo = FALSE]
               ELSE [v \in Voices |-> [config[v] EXCEPT !.solo = (v = voiceId)]]
  /\ UNCHANGED <<server, poll, page>>

\* onChange({...config, [voiceId]: {...config[voiceId], volume}}); the slider of a
\* voice that is not enabled is disabled
handleVolumeChange(voiceId, volume) ==
  /\ config[voiceId].enabled
  /\ config' = [config EXCEPT ![voiceId].volume = volume]
  /\ UNCHANGED <<server, poll, page>>

\* onChange(resetConfig)
handleResetAll ==
  /\ config' = resetConfig
  /\ UNCHANGED <<server, poll, page>>

\* the selector is mounted with a configuration that has at most one voice in solo
InitSATB ==
  /\ kv = [k \in Keys |-> Nil]
  /\ blobs = {}
  /\ now = 1
  /\ reqs = [s \in Slots |-> Idle]
  /\ jobs = <<>>
  /\ resp = NoResp
  /\ log = EmptyBag
  /\ nops = 0
  /\ faults = 0
  /\ \E solo \in Voices \cup {"none"} :
       config = [v \in Voices |-> [enabled |-> TRUE, solo |-> (v = solo), volume |-> 100]]
  /\ poll = NoPoll
  /\ page = NoPage

NextSATB ==
  \/ \E voiceId \in Voices : handleToggleEnabled(voiceId)
  \/ \E voiceId \in Voices : handleToggleSolo(voiceId)
  \/ \E voiceId \in Voices, volume \in Volumes : handleVolumeChange(voiceId, volume)
  \/ handleResetAll

SpecSATB == InitSATB /\ [][NextSATB]_vars

\* ------------------------------------------------------- pollConversionStatus
maxAttempts == 30
MaxInflight == 2     \* status requests that are on their way at one instant
MaxTicks == 32       \* firings of the interval that are followed

\* the user whose upload page polls, the Score they uploaded and the Conversion
\* that handleConvert has just been answered with
PollUser == "u1"
PollFile == CHOOSE file \in Files : file.type = "image/png"
PollScore ==
  scoreMetadata([scoreId |-> ScoreId(PollUser, 1), user |-> PollUser, file |-> PollFile,
                 fileName |-> FileName(PollUser, 1, PollFile.name)], 1)
PollConversion ==
  conversionData([user |-> PollUser, scoreId |-> PollScore.id, body |-> [tag |-> "body"]], 1)

\* data.status of the parsed response body: undefined when the body is an error
statusOf(json) == IF json.record.tag = "conversion" THEN json.record.status ELSE "undefined"

\* the state after handleConvert: the Score is stored and indexed, the Conversion
\* is processing with its timer pending, setConverting(true) has run and
\* pollConversionStatus(data.conversionId) has set the interval
InitPoll ==
  /\ kv = [k \in Keys |->
             IF k = PollScore.id THEN PollScore
             ELSE IF k = PollConversion.id THEN PollConversion
             ELSE IF k = UserScoresKey(PollUser) THEN List(<<PollScore.id>>)
             ELSE Nil]
  /\ blobs = {PollScore.filePath}
  /\ now = 1
  /\ reqs = [s \in Slots |-> Idle]
  /\ jobs = <<Job(PollConversion)>>
  /\ resp = Json(Request("convert", PollUser, PollUser, PollScore.id), 200, "", PollConversion.id,
                 convertResponse(PollConversion.id), <<>>)
  /\ log = SetToBag({Event("upload", PollScore.id, ""), Event("convert", PollConversion.id, PollScore.id)})
  /\ nops = 2
  /\ faults = 0
  /\ config = resetConfig
  /\ poll = [id |-> PollConversion.id, interval |-> "active", attempts |-> 0, converting |-> TRUE,
             navigations |-> 0, inflight |-> <<>>]
  /\ page = NoPage

\* the interval fires: attempts++, and apiCall(`/conversions/${id}`) sends a request
PollTick ==
  /\ poll.interval = "active"
  /\ poll.attempts < MaxTicks
  /\ Len(poll.inflight) < MaxInflight
  /\ poll' = [poll EXCEPT !.attempts = @ + 1, !.inflight = Append(@, [tag |-> "request"])]
  /\ UNCHANGED <<server, config, page>>

\* the server answers a request that is on its way (GET /conversions/:conversionId)
PollServe(n) ==
  /\ poll.inflight[n].tag = "request"
  /\ poll' = [poll EXCEPT !.inflight[n] =
       [tag |-> "response",
        status |-> statusOf(StatusReadResponse(kv, Request("status", PollUser, PollUser, poll.id)))]]
  /\ UNCHANGED <<server, config, page>>

\* catch (error): the fetch of a request is rejected; clearInterval, setConverting(false)
PollThrow(n) ==
  /\ poll.inflight[n].tag = "request"
  /\ poll' = [poll EXCEPT !.inflight = Remove(@, n), !.interval = "cleared", !.converting = FALSE]
  /\ UNCHANGED <<server, config, page>>

\* the callback goes on after its await with the parsed body: completed (navigate
\* by setTimeout), failed, or attempts >= maxAttempts; attempts is the counter all
\* callbacks of the interval share
PollReceive(n) ==
  LET data == poll.inflight[n] IN
  /\ data.tag = "response"
  /\ poll' =
       IF data.status = "completed"
       THEN [poll EXCEPT !.inflight = Remove(@, n), !.interval = "cleared", !.converting = FALSE,
                         !.navigations = @ + 1]
       ELSE IF data.status = "failed" \/ poll.attempts >= maxAttempts
            THEN [poll EXCEPT !.inflight = Remove(@, n), !.interval = "cleared", !.converting = FALSE]
            ELSE [poll EXCEPT !.inflight = Remove(@, n)]
  /\ UNCHANGED <<server, config, page>>

NextPoll ==
  \/ Tick
  \/ \E j \in 1..Len(jobs) : JobSetCompleted(j)
  \/ \E j \in 1..Len(jobs) : JobGetIndex(j)
  \/ \E j \in 1..Len(jobs) : JobSetIndex(j)
  \/ PollTick
  \/ \E n \in 1..Len(poll.inflight) : PollServe(n)
  \/ \E n \in 1..Len(poll.inflight) : PollThrow(n)
  \/ \E n \in 1..Len(poll.inflight) : PollReceive(n)

SpecPoll == InitPoll /\ [][NextPoll]_vars

\* ------------------------------------------------------------------ Library page
\* a user's Score, uploaded at instant 1, and the Conversion of it that was
\* created at instant t and completed one instant later
PageFile == CHOOSE file \in Files : file.type = "image/png"
PageScore(u) ==
  scoreMetadata([scoreId |-> ScoreId(u, 1), user |-> u, file |-> PageFile,
                 fileName |-> FileName(u, 1, PageFile.name)], 1)
PageConversion(u, t) ==
  LET data == conversionData([user |-> u, scoreId |-> ScoreId(u, 1), body |-> [tag |-> "body"]], t)
  IN updatedConversion(data, createSignedUrl(audioPath(data), FALSE),
                       createSignedUrl(midiPath(data), FALSE), t + 1)
\* the Conversion indexes a user can have when every Conversion is completed: the
\* ids in the order in which the completion callbacks appended them
PageIndexes(u) ==
  LET c1 == ConversionId(u, 1)
      c2 == ConversionId(u, 2)
  IN {<<>>, <<c1>>, <<c2>>, <<c1, c2>>, <<c2, c1>>}

\* the store after a user has uploaded a Score and converted it up to twice, all
\* Conversions completed; the requests counted are those of the Library page
InitPage ==
  /\ \E u \in Users : \E index \in PageIndexes(u) :
       /\ kv = [k \in Keys |->
                  IF k = ScoreId(u, 1) THEN PageScore(u)
                  ELSE IF k = UserScoresKey(u) THEN List(<<ScoreId(u, 1)>>)
                  ELSE IF k = UserConversionsKey(u) /\ index # <<>> THEN List(index)
                  ELSE IF \E t \in Times : k = ConversionId(u, t) /\ InSeq(k, index)
                       THEN PageConversion(u, CHOOSE t \in Times : k = ConversionId(u, t))
                       ELSE Nil]
       /\ blobs = {PageScore(u).filePath}
       /\ log = SetToBag({Event("upload", ScoreId(u, 1), "")}
                         \cup {Event("convert", index[n], ScoreId(u, 1)) : n \in 1..Len(index)})
  /\ now = MaxTime + 1
  /\ reqs = [s \in Slots |-> Idle]
  /\ jobs = <<>>
  /\ resp = NoResp
  /\ nops = 0
  /\ faults = 0
  /\ config = resetConfig
  /\ poll = NoPoll
  /\ page = NoPage

\* loadLibrary: the response of GET /library has come in; setScores(data.library || [])
loadLibrary ==
  /\ resp.req.op = "library"
  /\ resp.code = 200
  /\ page' = [page EXCEPT !.scores = resp.library]
  /\ UNCHANGED <<server, config, poll>>

\* handleScoreSelect(score): latestConversion = score.conversions[0]
handleScoreSelect(n) ==
  LET score == page.scores[n] IN
  /\ page' = [page EXCEPT
       !.selected = score,
       !.location = IF Len(score.conversions) > 0
                    THEN "/playback/" \o score.conversions[1].id
                    ELSE "/upload"]
  /\ UNCHANGED <<server, config, poll>>

NextPage ==
  \/ \E token \in Tokens : LibraryRejected(token)
  \/ \E s \in Slots, token \in Tokens : LibraryGetScoreIds(s, token)
  \/ \E s \in Slots : LibraryGetConversionIds(s)
  \/ \E s \in Slots : LibraryMgetScores(s)
  \/ \E s \in Slots : LibraryMgetConversions(s)
  \/ loadLibrary
  \/ \E n \in 1..Len(page.scores) : handleScoreSelect(n)

SpecPage == InitPage /\ [][NextPage]_vars

\* ================================================================== properties
InList(x, list) == \E n \in 1..Len(list) : list[n] = x
NoDuplicates(list) == \A m, n \in 1..Len(list) : list[m] = list[n] => m = n
Events(op) == {e \in BagToSet(log) : e.op = op}
ScoreIndex(u) == ListOf(kv[UserScoresKey(u)])
ConversionIndex(u) == ListOf(kv[UserConversionsKey(u)])
\* a Library Listing that runs with no other handler in between
LibraryNow(u) == library(mget(kv, ScoreIndex(u)), mget(kv, ConversionIndex(u)))
\* the record under id exists and belongs to somebody else than u
Foreign(u, id) == kv[id] # Nil /\ UserIdOf(kv[id]) # u
\* this step receives a request
Received == nops' = nops + 1

\* C1: once a Conversion record has status completed or failed, no write gives it
\* another status (the record may only be deleted).
C1_StatusMonotonic ==
  [][\A c \in ConversionIds :
       (kv[c] # Nil /\ kv[c].status \in {"completed", "failed"})
         => (kv'[c] = Nil \/ kv'[c].status = kv[c].status)]_vars

\* C2: once Delete Score on S has reported success, every Conversion that a Convert
\* on S had returned is gone: Status Read answers 404 to every user, no Conversion
\* index holds its id and no Library Listing shows it.
Gone(c) ==
  \A u \in Users :
    /\ StatusReadResponse(kv, Request("status", u, u, c)).code = 404
    /\ ~InList(c, ConversionIndex(u))
    /\ \A n \in 1..Len(LibraryNow(u)) :
         \A m \in 1..Len(LibraryNow(u)[n].conversions) : LibraryNow(u)[n].conversions[m].id # c
C2_DeletedConversionsGone == \A e \in Events("cascade") : Gone(e.id)

\* C3: every Conversion record names, in scoreId, an existing Score record of the
\* same user.
C3_ConversionRefersToOwnedScore ==
  \A c \in Keys :
    kv[c].tag = "conversion"
      => kv[kv[c].scoreId].tag = "score" /\ kv[kv[c].scoreId].userId = kv[c].userId

\* the request is Status Read, Convert or Delete Score by a user on an id whose
\* record belongs to somebody else
OnForeign(q) ==
  /\ q.op \in {"status", "convert", "delete"}
  /\ q.caller \in Users
  /\ q.param \in Keys
  /\ Foreign(q.caller, q.param)
NotFoundMessage(op) ==
  IF op = "status" THEN "Conversion not found or access denied" ELSE "Score not found or access denied"
OwnedBy(u, entry) ==
  /\ entry.score.userId = u
  /\ \A m \in 1..Len(entry.conversions) : entry.conversions[m].userId = u

\* C4: a Library Listing answered to B holds only Scores and Conversions of B; a
\* Status Read, Convert or Delete Score that B sends with the id of a record of
\* another user is answered in that step with 404 and the not-found-or-denied
\* message (500 when the Metadata Store fails), never gets past the ownership
\* check, and leaves every record, index, blob and pending completion unchanged.
C4_Isolation ==
  [][/\ (resp'.req.op = "library" /\ resp'.code = 200)
          => \A n \in 1..Len(resp'.library) : OwnedBy(resp'.req.caller, resp'.library[n])
     /\ Received =>
          /\ \A s \in Slots : reqs'[s] # reqs[s] => ~OnForeign(reqs'[s].req)
          /\ (reqs' = reqs /\ OnForeign(resp'.req)) =>
                /\ UNCHANGED <<kv, blobs, jobs>>
                /\ IF faults' = faults
                   THEN resp'.code = 404 /\ resp'.error = NotFoundMessage(resp'.req.op)
                   ELSE resp'.code = 500]_vars
\* B has just been refused on a record of another user that exists
C4_Witness ==
  /\ OnForeign(resp.req)
  /\ resp.code = 404
  /\ \E u \in Users : ScoreIndex(u) # <<>> /\ u # resp.req.caller

\* the store without the record under id
Erase(store, id) == [store EXCEPT ![id] = Nil]
\* the answer of the handler's existence-and-ownership check on a store
CheckResponse(store, q) ==
  CASE q.op = "convert" -> ConvertCheckResponse(store, q)
    [] q.op = "status" -> StatusReadResponse(store, q)
    [] q.op = "delete" -> DeleteCheckResponse(store, q)

\* C5: when Convert, Status Read or Delete Score is sent with the id of a record of
\* another user, the response (status code and message) is the one the handler
\* gives on the same store without that record, and in every reachable store the
\* three checks answer a foreign id as they answer it once the record is erased.
C5_Indistinguishable ==
  /\ [](\A B \in Users : \A id \in Ids : \A op \in {"convert", "status", "delete"} :
         Foreign(B, id) =>
           /\ CheckResponse(kv, Request(op, B, B, id)) = CheckResponse(Erase(kv, id), Request(op, B, B, id))
           /\ CheckResponse(kv, Request(op, B, B, id)).code = 404)
  /\ [][(Received /\ reqs' = reqs /\ faults' = faults /\ OnForeign(resp'.req))
          => resp' = CheckResponse(Erase(kv, resp'.req.param), resp'.req)]_vars
\* a Convert or Delete Score has been refused on another user's Score that exists
C5_Witness ==
  /\ resp.req.op \in {"convert", "delete"}
  /\ OnForeign(resp.req)
  /\ kv[resp.req.param].tag = "score"
  /\ resp = CheckResponse(Erase(kv, resp.req.param), resp.req)

\* C6: no two successful Uploads return the same Score id, and no Score id occurs
\* twice in a Score index.
C6_ScoreIdsUnique ==
  /\ \A e \in Events("upload") : CopiesIn(e, log) = 1
  /\ \A u \in Users : NoDuplicates(ScoreIndex(u))

\* C7: no two successful Convert calls on the same Score return the same
\* Conversion id.
C7_ConversionIdsUnique == \A e \in Events("convert") : CopiesIn(e, log) = 1

\* C8: the Score id a successful Upload returned is in its owner's Score index and
\* in the owner's Library Listing for as long as the Score record exists and no
\* Delete Score on it has been accepted.
BeingDeleted(id) ==
  \/ Event("delete", id, "") \in BagToSet(log)
  \/ \E s \in Slots : reqs[s].req.op = "delete" /\ reqs[s].req.param = id
C8_UploadedScoreIndexed ==
  \A e \in Events("upload") :
    (kv[e.id] # Nil /\ ~BeingDeleted(e.id))
      => /\ InList(e.id, ScoreIndex(kv[e.id].userId))
         /\ \E n \in 1..Len(LibraryNow(kv[e.id].userId)) : LibraryNow(kv[e.id].userId)[n].score.id = e.id

\* the request is an Upload by a user with a file of a type that is not allowed
InvalidUpload(q) == q.op = "upload" /\ q.caller \in Users /\ q.param \notin allowedTypes \cup {""}

\* C9: an Upload whose declared type is not allowed is answered in the step that
\* receives it with 400 and the invalid-type message; it stores no blob, writes no
\* record or index, and its handler does not go on.
C9_InvalidTypeRejected ==
  [][Received =>
       /\ \A s \in Slots : reqs'[s] # reqs[s] => ~InvalidUpload(reqs'[s].req)
       /\ (reqs' = reqs /\ InvalidUpload(resp'.req)) =>
             /\ resp'.code = 400
             /\ resp'.error = "Invalid file type. Please upload JPG, PNG, or PDF files only."
             /\ UNCHANGED <<kv, blobs, jobs>>]_vars
\* a text file has been refused while the user has a Score index to change
C9_Witness ==
  /\ InvalidUpload(resp.req)
  /\ resp.req.param = "text/plain"
  /\ resp.code = 400
  /\ ScoreIndex(resp.req.caller) # <<>>

\* the Upload handler in slot s takes this step
UploadStep(s) == reqs'[s] # reqs[s] /\ (reqs[s].req.op = "upload" \/ reqs'[s].req.op = "upload")

\* C10: within Upload the handler goes on to the metadata write only from a step
\* in which the Blob Store stored the file, writes the Score record only then, goes
\* on to the index only after that write, and appends the id to the index last,
\* touching the Metadata Store in no other step; a Score record is written by that
\* one step only; an Upload whose blob upload fails writes neither record nor index
\* and ends.
C10_UploadOrder ==
  [][/\ \A s \in Slots : UploadStep(s) =>
          LET r == reqs[s]
              r2 == reqs'[s]
          IN
          CASE r2.pc = "setMeta" ->
                 r = Idle /\ r2.fileName \notin blobs /\ r2.fileName \in blobs' /\ kv' = kv
            [] r2.pc = "getIndex" ->
                 /\ r.pc = "setMeta"
                 /\ kv' = [kv EXCEPT ![r.scoreId] = scoreMetadata(r, now)]
            [] r2.pc = "setIndex" -> r.pc = "getIndex" /\ kv' = kv
            [] r2.pc = "idle" ->
                 \/ resp'.code = 500 /\ kv' = kv
                 \/ /\ resp'.code = 200
                    /\ r.pc = "setIndex"
                    /\ kv' = [kv EXCEPT ![UserScoresKey(r.user)] = List(Append(r.existingScores, r.scoreId))]
     /\ \A id \in ScoreIds :
          (kv'[id] # kv[id] /\ kv'[id] # Nil)
            => \E s \in Slots : UploadStep(s) /\ reqs[s].pc = "setMeta" /\ reqs[s].scoreId = id
     /\ (Received /\ reqs' = reqs /\ resp'.req.op = "upload" /\ resp'.code = 500)
          => UNCHANGED <<kv, blobs>>]_vars
\* one Upload of the user has gone through to the index, with record and blob in
\* place, and another has just been refused by the Blob Store
C10_Witness ==
  /\ resp.req.op = "upload" /\ resp.error = "Failed to upload file"
  /\ \E e \in Events("upload") :
       /\ InList(e.id, ScoreIndex(resp.req.caller))
       /\ kv[e.id] # Nil
       /\ FilePathOf(kv[e.id]) \in blobs

\* C10 as stated, last clause: every id in a Score index has a Score record and a
\* stored blob.
C10_IndexedScoreStored ==
  \A u \in Users : \A n \in 1..Len(ScoreIndex(u)) :
    /\ kv[ScoreIndex(u)[n]].tag = "score"
    /\ FilePathOf(kv[ScoreIndex(u)[n]]) \in blobs

\* the request comes from a user and names an id with no record, or with a record
\* of somebody else
MissingOrForeign(q) ==
  /\ q.caller \in Users
  /\ q.param \in Keys
  /\ (kv[q.param] = Nil \/ UserIdOf(kv[q.param]) # q.caller)

\* C11: a Convert whose id names no record, or a record of another user, is
\* answered in the step that receives it with 404 and the not-found-or-denied
\* message (500 when the Metadata Store read fails); its handler does not go on,
\* and the step writes no record and no index and schedules no completion.
C11_ConvertDenied ==
  [][Received =>
       /\ \A s \in Slots :
            (reqs'[s] # reqs[s] /\ reqs'[s].req.op = "convert") => ~MissingOrForeign(reqs'[s].req)
       /\ (reqs' = reqs /\ resp'.req.op = "convert" /\ MissingOrForeign(resp'.req)) =>
             /\ UNCHANGED <<kv, blobs, jobs, log>>
             /\ IF faults' = faults
                THEN resp'.code = 404 /\ resp'.error = "Score not found or access denied"
                ELSE resp'.code = 500]_vars
\* a user who has a Score has been refused a Convert on an id that names nothing
C11_Witness ==
  /\ resp.req.op = "convert" /\ resp.code = 404
  /\ resp.req.caller \in Users
  /\ kv[resp.req.param] = Nil
  /\ ScoreIndex(resp.req.caller) # <<>>

\* C12: a request of any of the five operations whose bearer token is missing or
\* is not accepted is answered in the step that receives it with 401 and the
\* message of verifyAuth; its handler does not go on and nothing is written.
C12_Unauthorized ==
  [][Received =>
       /\ \A s \in Slots : reqs'[s] # reqs[s] => reqs'[s].req.token \in Users
       /\ (reqs' = reqs /\ resp'.req.token \notin Users) =>
             /\ resp'.req.op \in {"upload", "convert", "status", "library", "delete"}
             /\ resp'.code = 401
             /\ resp'.error = IF resp'.req.token = "" THEN "No authorization token provided"
                                                     ELSE "Invalid or expired token"
             /\ UNCHANGED <<kv, blobs, jobs, log, faults>>]_vars
\* a Delete Score on an existing Score has been refused for its expired token
C12_Witness ==
  /\ resp.req.op = "delete" /\ resp.req.token = "expired"
  /\ resp.code = 401
  /\ kv[resp.req.param].tag = "score"

\* a step of a completion callback: a callback moves on or ends
JobStep == jobs' # jobs /\ Len(jobs') <= Len(jobs)
Terminal(v) == v.tag = "conversion" /\ v.status \in {"completed", "failed"}

\* C13: the step in which Convert answers 200 has written the Conversion record
\* under the returned id with status processing and scheduled its completion, and
\* the response reports processing; a Conversion record gets status completed or
\* failed by a step of a completion callback only, and such a step sends no
\* response and changes none.
C13_ConvertProcessing ==
  [][/\ (log' # log /\ resp'.req.op = "convert") =>
          /\ resp'.code = 200
          /\ resp'.record.status = "processing" /\ resp'.record.conversionId = resp'.id
          /\ kv'[resp'.id].tag = "conversion"
          /\ kv'[resp'.id].status = "processing"
          /\ kv'[resp'.id].scoreId = resp'.req.param
          /\ kv'[resp'.id].userId = resp'.req.caller
          /\ jobs' = Append(jobs, Job(kv'[resp'.id]))
     /\ \A c \in ConversionIds : (Terminal(kv'[c]) /\ kv'[c] # kv[c]) => JobStep
     /\ JobStep => resp' = resp /\ reqs' = reqs]_vars
\* the Conversion of the last Convert response has failed since, and the response
\* is the 200 it was
C13_Witness ==
  /\ resp.req.op = "convert" /\ resp.code = 200
  /\ resp.record.status = "processing"
  /\ kv[resp.id].tag = "conversion" /\ kv[resp.id].status = "failed"

\* C14: a step of a completion callback writes a Conversion record only over a
\* record that exists and has status processing.
C14_CompletionOnlyOnProcessing ==
  [][JobStep =>
       \A c \in ConversionIds :
         kv'[c] # kv[c] => (kv[c].tag = "conversion" /\ kv[c].status = "processing")]_vars

\* a completion callback for Conversion c is pending or running
Pending(c) == \E j \in 1..Len(jobs) : jobs[j].conversionData.id = c

\* C15: a Conversion that is processing is not in its user's Conversion index, and
\* a Conversion whose completion has ended, with status completed or failed, is.
C15_IndexedOnCompletion ==
  \A c \in ConversionIds :
    kv[c].tag = "conversion" =>
      /\ kv[c].status = "processing" => ~InList(c, ConversionIndex(kv[c].userId))
      /\ (Terminal(kv[c]) /\ ~Pending(c)) => InList(c, ConversionIndex(kv[c].userId))

\* C16: a Conversion record has completedAt exactly when its status is completed
\* or failed.
C16_CompletedAtIffTerminal ==
  \A c \in ConversionIds :
    kv[c].tag = "conversion" => (("completedAt" \in DOMAIN kv[c]) <=> Terminal(kv[c]))

\* C17: a Conversion record has audioPath or midiPath only with status completed,
\* and error only with status failed.
C17_ResultFieldsMatchStatus ==
  \A c \in ConversionIds :
    kv[c].tag = "conversion" =>
      /\ ("audioPath" \in DOMAIN kv[c] \/ "midiPath" \in DOMAIN kv[c]) => kv[c].status = "completed"
      /\ "error" \in DOMAIN kv[c] => kv[c].status = "failed"
\* the catch block has written the failed record and the callback has ended
C17_Witness ==
  \E c \in ConversionIds :
    /\ kv[c].tag = "conversion" /\ kv[c].status = "failed"
    /\ "error" \in DOMAIN kv[c] /\ "audioPath" \notin DOMAIN kv[c]
    /\ faults = 1 /\ ~Pending(c)

\* C18: every Conversion record with status completed has a non-empty audioUrl and
\* a non-empty midiUrl.
NonEmptyUrl(url) == url \notin {"", "undefined"}
C18_CompletedHasUrls ==
  \A c \in ConversionIds :
    (kv[c].tag = "conversion" /\ kv[c].status = "completed")
      => NonEmptyUrl(kv[c].audioUrl) /\ NonEmptyUrl(kv[c].midiUrl)

RECURSIVE Attached(_)
\* the number of Conversions attached to the entries of a listing
Attached(lib) == IF lib = <<>> THEN 0 ELSE Len(Head(lib).conversions) + Attached(Tail(lib))
\* the Scores that exist among the ids of the user's Score index
IndexedScores(u) == {id \in Keys : InList(id, ScoreIndex(u)) /\ kv[id].tag = "score"}
\* the records that exist under the ids
ExistingRecords(ids) == {kv[id] : id \in {k \in Keys : InList(k, ids) /\ kv[k] # Nil}}
Elements(list) == {list[n] : n \in 1..Len(list)}

\* lib is the listing of user u for the present stores
ListingOf(u, lib) ==
  /\ Len(lib) = Cardinality(IndexedScores(u))
  /\ \A id \in IndexedScores(u) : \E n \in 1..Len(lib) : lib[n].score = kv[id]
  /\ \A n \in 1..Len(lib) : lib[n].score.userId = u
  /\ \A m, n \in 1..Len(lib) : m < n => lib[m].score.uploadedAt >= lib[n].score.uploadedAt
  /\ \A n \in 1..Len(lib) :
       /\ NoDuplicates(lib[n].conversions)
       /\ Elements(lib[n].conversions) =
            {c \in ExistingRecords(ConversionIndex(u)) : c.scoreId = lib[n].score.id}
  /\ Attached(lib) <= Len(ConversionIndex(u))
  /\ ScoreIndex(u) = <<>> => lib = <<>>
\* the Library handler in slot s sends its listing, and what it has read from the
\* indexes and of the Scores is what the stores hold now
ListingSent(s) ==
  /\ reqs[s].req.op = "library" /\ reqs'[s] = Idle /\ resp'.code = 200
  /\ reqs[s].scoreIds = ScoreIndex(reqs[s].user)
  /\ reqs[s].conversionIds = ConversionIndex(reqs[s].user)
  /\ Elements(reqs[s].scores) = ExistingRecords(reqs[s].scoreIds)

C20_MissingRecordsOmitted ==
  [][\A s \in Slots :
       reqs[s].req.op = "library" =>
         /\ (reqs[s].pc = "mgetScores" /\ reqs'[s].pc = "mgetConversions")
              => Elements(reqs'[s].scores) = ExistingRecords(reqs[s].scoreIds)
         /\ reqs'[s] = Idle =>
              /\ resp'.code = 200 \/ faults' # faults
              /\ resp'.code = 200 =>
                   /\ Len(resp'.library) = Len(reqs[s].scores)
                   /\ \A n \in 1..Len(resp'.library) :
                        /\ resp'.library[n].score.tag = "score"
                        /\ \A m \in 1..Len(resp'.library[n].conversions) :
                             resp'.library[n].conversions[m].tag = "conversion"]_vars
\* a listing has been answered with fewer entries than the caller's Score index
\* has ids, one of which names no record
C20_Witness ==
  /\ resp.req.op = "library" /\ resp.code = 200
  /\ Len(resp.library) < Len(ScoreIndex(resp.req.caller))
  /\ \E n \in 1..Len(ScoreIndex(resp.req.caller)) : kv[ScoreIndex(resp.req.caller)[n]] = Nil

\* the Delete handler in slot s takes a step
DeleteStep(s) == reqs[s].req.op = "delete" /\ reqs'[s] # reqs[s]

\* C21: in Delete Score the removal of the Score blob never ends the handler,
\* whether the blob went away or not, and neither does a failed removal of an
\* audio or MIDI blob: the handler goes on to delete each matching Conversion
\* record, to rewrite the Conversion index without them, to delete the Score
\* record and to rewrite the Score index without the Score id, and answers 200;
\* it answers 500 only from a step in which a Metadata Store call failed.
C21_DeleteBestEffort ==
  [][\A s \in Slots :
       DeleteStep(s) =>
         LET r == reqs[s] IN
         /\ r.pc = "removeFile" =>
              reqs'[s].pc = "getConversionIds" /\ resp' = resp /\ kv' = kv
         /\ reqs'[s] # Idle =>
              /\ resp' = resp
              /\ (r.pc = "loop" /\ r.i <= Len(r.scoreConversions)) =>
                   kv'[r.scoreConversions[r.i].id] = Nil /\ reqs'[s].i = r.i + 1
              /\ (r.pc = "loop" /\ r.i > Len(r.scoreConversions)) =>
                   /\ reqs'[s].pc = "delScore"
                   /\ \A n \in 1..Len(r.scoreConversions) :
                        ~InList(r.scoreConversions[n].id, ListOf(kv'[UserConversionsKey(r.user)]))
              /\ r.pc = "delScore" => kv'[r.scoreId] = Nil
         /\ reqs'[s] = Idle =>
              \/ /\ resp'.code = 200 /\ r.pc = "setScoreIds"
                 /\ ~InList(r.scoreId, ListOf(kv'[UserScoresKey(r.user)]))
              \/ /\ resp'.code = 500 /\ r.pc # "removeFile"
                 /\ faults' = faults + 1 /\ kv' = kv /\ blobs' = blobs]_vars
\* an Upload and the Delete Score of its Score are all that was asked, the Delete
\* has answered 200 and has removed the record and the index entry, and the blob
\* is still in the bucket because its removal failed
C21_Witness ==
  /\ resp.req.op = "delete" /\ resp.code = 200
  /\ nops = 2 /\ faults = 1
  /\ blobs # {}
  /\ kv[resp.id] = Nil
  /\ \A u \in Users : ~InList(resp.id, ScoreIndex(u))

\* C22: a Conversion record leaves the Metadata Store only in a step of a Delete
\* Score that was called with the id of the Score the Conversion's scoreId names.
C22_ConversionDeletedOnlyWithScore ==
  [][\A c \in Keys :
       (kv[c].tag = "conversion" /\ kv'[c] = Nil) =>
         \E s \in Slots : DeleteStep(s) /\ reqs[s].req.param = kv[c].scoreId]_vars

\* the content types the upload handler lets through
StoredTypes == {"image/jpeg", "image/png", "image/jpg", "application/pdf"}
\* C23: every Score record has a fileType of image/jpeg, image/png, image/jpg or
\* application/pdf; an Upload that declares another content type gets no further
\* than its 400 response, so no handler ever works on such a file.
C23_FileTypeAllowed ==
  /\ \A k \in Keys : kv[k].tag = "score" => kv[k].fileType \in StoredTypes
  /\ \A s \in Slots : reqs[s].req.op = "upload" => reqs[s].req.param \in StoredTypes
  /\ (resp.req.op = "upload" /\ resp.req.caller \in Users /\ resp.req.param \notin StoredTypes \cup {""})
       => resp.code = 400
\* a Score of type image/jpg is stored, and an Upload of a text file has just been
\* turned away
C23_Witness ==
  /\ \E k \in Keys : kv[k].tag = "score" /\ kv[k].fileType = "image/jpg"
  /\ resp.req.op = "upload" /\ resp.req.param = "text/plain" /\ resp.code = 400
\* C23 as stated: every Score record has a fileType of image/jpeg, image/png or
\* application/pdf.
C23_ThreeTypes ==
  \A k \in Keys : kv[k].tag = "score" => kv[k].fileType \in {"image/jpeg", "image/png", "application/pdf"}

\* C24: every Conversion record has a tempo from 40 to 240, and the Conversion of
\* a Convert request without tempo has tempo 120.
C24_TempoInRange ==
  /\ [](\A k \in Keys : kv[k].tag = "conversion" => kv[k].tempo \in 40..240)
  /\ [][\A s \in Slots :
          (reqs[s].req.op = "convert" /\ reqs'[s] = Idle /\ resp'.code = 200
             /\ "tempo" \notin DOMAIN reqs[s].body)
            => kv'[resp'.id].tempo = 120]_vars

\* C25: a file larger than the maximum is turned away by the client's UploadArea,
\* which does not call onFileSelect for it, and by the server's Upload, so that
\* no Score record has a fileSize above the maximum.
C25_OversizedRejected ==
  /\ \A file \in Files : file.size > maxSizeBytes => validateFile(file) # "" /\ ~onFileSelect(file)
  /\ \A k \in Keys : kv[k].tag = "score" => kv[k].fileSize <= maxSizeBytes

\* list without the ids in gone, the others in the order they had
Without(list, gone) == SelectSeq(list, LAMBDA id : id \notin gone)
\* what the Delete handler in slot s has read is what the store holds now: no
\* other handler has written in between
Current(s) ==
  LET r == reqs[s] IN
  /\ (r.pc = "loop" /\ r.i <= Len(r.scoreConversions))
       => kv[r.scoreConversions[r.i].id] = r.scoreConversions[r.i]
  /\ r.pc = "loop" => r.conversionIds = ConversionIndex(r.user)
  /\ r.pc = "setScoreIds" => r.scoreIds = ScoreIndex(r.user)

C30_IdOfExpectedKind ==
  /\ [][\A s \in Slots :
          (reqs[s].req.op = "convert" /\ reqs'[s] = Idle /\ resp'.code = 200)
            => reqs[s].scoreId \in ScoreIds]_vars
  /\ [](resp.req.op = "status" /\ resp.code = 200 => resp.record.tag = "conversion")

\* the voices in solo
Solos(c) == {v \in Voices : c[v].solo}

\* C26: from a configuration with at most one voice in solo, the SATBSelector's
\* handlers only reach configurations with at most one voice in solo; a solo
\* toggle on a voice that is not solo leaves it the only solo voice, and a solo
\* toggle on the solo voice leaves no voice in solo.
C26_AtMostOneSolo ==
  /\ [](Cardinality(Solos(config)) <= 1)
  /\ [][\A voiceId \in Voices :
          handleToggleSolo(voiceId) =>
            Solos(config') = IF config[voiceId].solo THEN {} ELSE {voiceId}]_vars
\* alto is the solo voice, of a configuration in which a voice has been disabled
\* and a volume changed
C26_Witness ==
  /\ Solos(config) = {"alto"}
  /\ ~config["soprano"].enabled
  /\ config["tenor"].volume = 0

\* C27: pollConversionStatus sends at most 30 status requests, has set converting
\* to false whenever it has cleared its interval, clears the interval when a
\* response reports completed or failed, and starts the navigation to the playback
\* page at most once.
C27_PollStops ==
  /\ [](poll.attempts <= maxAttempts)
  /\ [](poll.navigations <= 1)
  /\ [](poll.interval = "cleared" => ~poll.converting)
  /\ [][\A n \in 1..Len(poll.inflight) :
          (PollReceive(n) /\ poll.inflight[n].status \in {"completed", "failed"})
            => poll'.interval = "cleared"]_vars

\* the Conversion created last among those attached to a Library entry
Latest(conversions) ==
  CHOOSE c \in Elements(conversions) : \A d \in Elements(conversions) : d.createdAt <= c.createdAt

\* C28: after a Score with conversions has been selected in the Library page, the
\* page is at the playback of the Conversion created last among those the
\* listing attached to the Score.
C28_SelectsMostRecent ==
  (page.selected # Nil /\ Len(page.selected.conversions) > 0)
    => page.location = "/playback/" \o Latest(page.selected.conversions).id
====
